---- MODULE Spec2Model ----
(***************************************************************************)
(* Store monitoring system: the availability-estimation engine             *)
(* (apps/utils/business_hours.py, apps/utils/report_data.py) and the       *)
(* report run around it (apps/utils/report.py, apps/models.py).            *)
(*                                                                         *)
(* Time.  An instant is a whole number of seconds since 00:00:00 UTC of    *)
(* day 0, and day 0 is a Monday, so date d has weekday d % 7 (0 = Monday,  *)
(* as datetime.weekday()).  A time of day is a number of seconds in        *)
(* 0..86399.  Microseconds are not modelled.                               *)
(*                                                                         *)
(* Numbers.  The six report fields are floats in the program.  Here a      *)
(* field value v is the integer v * FieldScale, which is exact for every   *)
(* duration the engine adds (whole seconds divided by 60 or by 3600).      *)
(* An estimated state is the exact fraction <<num, den>>, den > 0.         *)
(***************************************************************************)
EXTENDS Integers, Sequences, FiniteSets, TLC

\* ------------------------------------------------------------------ bounds
MaxPolls == 2
MaxHoursRows == 1

\* --------------------------------------------------------------- constants
INTERVALS_PER_HOUR == 4

SecondsPerHour == 60 * 60
SecondsPerDay == 24 * SecondsPerHour
FieldScale == 60 * 60

Weekdays == 0 .. 6
NoneValue == [none |-> TRUE]
IsNone(x) == "none" \in DOMAIN x

\* ------------------------------------------------------------ datetime
TimeOfDay(h, m, s) == h * SecondsPerHour + m * 60 + s
DateOf(t) == t \div SecondsPerDay
TimeOf(t) == t % SecondsPerDay
WeekdayOfDate(d) == d % 7
Combine(d, tod) == d * SecondsPerDay + tod


\* ------------------------------------------------------------ variables
VARIABLES
  Store,                \* table of polls: [store, timestamp_utc, is_active]
  BusinessHours,        \* table: [store, day, start_time_local, end_time_local]
  Timezone,             \* table: [store, timezone_str]
  current_timestamp,    \* StoremonitoringsystemConfig.current_timestamp
  today,                \* date.today(): the wall-clock date of the process
  e_pc,                 \* engine pipeline: position
  e_store,              \* engine pipeline: the entity being computed
  business_hours_data,  \* engine pipeline: result of get_business_hours_by_store
  grouped_observations, \* engine pipeline: weekday -> polls
  classified_intervals, \* engine pipeline: weekday -> classified intervals
  store_report,         \* engine pipeline: the StoreReport, or NoneValue
  Report,               \* table of reports, by id: [store_data, is_completed]
  g_pc,                 \* report id -> position of its generate_report task
  grouped_stores,       \* report id -> the (store, polls) groups of the run
  date_weekday_mapping, \* report id -> the mapping the run computed
  store_data_by_id,     \* report id -> group index -> result of its task
  is_importing,         \* the flag kept in is_importing.json
  i_pc,                 \* position of the load_db_from_csv process
  loaded,               \* the tables whose loader process has finished
  response,             \* the response to the last request of a view
  u_call,               \* a single call of a function of the engine: its arguments
  u_result              \* the value that call returned, or NoneValue before it

\* ------------------------------------------------------------ exceptions
\* A call either returns a value or raises.
Raise == [ok |-> FALSE]
Return(v) == [ok |-> TRUE, val |-> v]

\* ------------------------------------------------------------ pytz
\* The zones of the tz database the model knows; every other name makes
\* pytz.timezone raise UnknownTimeZoneError.
KnownZones == {"America/Chicago", "Asia/Kolkata"}

\* Daylight saving time is in effect in America/Chicago from the second
\* Sunday of March to the first Sunday of November (day 16 is 2023-01-25).
DstInEffect(zone, date) ==
  zone = "America/Chicago" /\ date >= 62 /\ date < 300

\* utcoffset() of the zone on the given date, in seconds east of UTC.
UtcOffset(zone, date) ==
  IF zone = "America/Chicago"
    THEN (IF DstInEffect(zone, date) THEN -5 ELSE -6) * SecondsPerHour
    ELSE 5 * SecondsPerHour + 30 * 60

\* ------------------------------------------------------------ business_hours.py
get_default_business_hours_data ==
  [day \in Weekdays |->
     [day |-> day,
      start_utc |-> TimeOfDay(0, 0, 0),
      end_utc |-> TimeOfDay(23, 59, 59)]]

\* The local time of day is put on date.today(), localized, converted to UTC,
\* and only the time of day of the result is kept.
convert_local_time_to_utc(local_time, timezone_info, wall_date) ==
  IF timezone_info \notin KnownZones
    THEN Raise
    ELSE Return(TimeOf(Combine(wall_date, local_time)
                       - UtcOffset(timezone_info, wall_date)))

get_timezone_info_for_store(store_id, TZ) ==
  IF \E z \in TZ : z.store = store_id
    THEN (CHOOSE z \in TZ : z.store = store_id).timezone_str
    ELSE "America/Chicago"

convert_business_hours_to_utc(store_id, start_time_local, end_time_local, TZ, wall_date) ==
  LET timezone_info == get_timezone_info_for_store(store_id, TZ)
      start_utc == convert_local_time_to_utc(start_time_local, timezone_info, wall_date)
      end_utc == convert_local_time_to_utc(end_time_local, timezone_info, wall_date)
  IN IF start_utc.ok /\ end_utc.ok
       THEN Return(<<start_utc.val, end_utc.val>>)
       ELSE Raise

\* Mutant: the rows of every store, as BusinessHours.objects.all() gives.
BusinessHoursOfStore_AllRows(store_id, BH) == BH

\* BusinessHours.objects.filter(store=store_id)
BusinessHoursOfStore(store_id, BH) == {b \in BH : b.store = store_id}

\* Mutant: the entry after the one of the row's day.
EntryIndex_NextDay(day) == (day + 1) % 7

\* business_hours_data[entry_index]: a Python list of 7 entries takes the
\* indices -7..6 and raises IndexError for any other.
EntryIndex(day) == IF day < 0 THEN day + 7 ELSE day

RECURSIVE UpdateBusinessHours(_, _, _, _, _)
UpdateBusinessHours(data, rows, store_id, TZ, wall_date) ==
  IF rows = {}
    THEN Return(data)
    ELSE LET business_hour == CHOOSE b \in rows : \A q \in rows : b.day <= q.day
             utc == convert_business_hours_to_utc(store_id,
                      business_hour.start_time_local,
                      business_hour.end_time_local, TZ, wall_date)
         IN IF ~utc.ok \/ business_hour.day \notin (-7 .. 6)
              THEN Raise
              ELSE UpdateBusinessHours(
                     [data EXCEPT ![EntryIndex(business_hour.day)] =
                        [@ EXCEPT !.start_utc = utc.val[1], !.end_utc = utc.val[2]]],
                     rows \ {business_hour}, store_id, TZ, wall_date)

get_business_hours_by_store(store_id, BH, TZ, wall_date) ==
  UpdateBusinessHours(get_default_business_hours_data,
                      BusinessHoursOfStore(store_id, BH), store_id, TZ, wall_date)

\* ------------------------------------------------------------ report_data.py
RECURSIVE DateWeekdayLoop(_, _, _)
DateWeekdayLoop(mapping, day, now) ==
  IF day > 6
    THEN mapping
    ELSE LET current_weekday == WeekdayOfDate(DateOf(now))
             date == DateOf(now - day * SecondsPerDay)
             key == (current_weekday - day) % 7
         IN DateWeekdayLoop((key :> date) @@ mapping, day + 1, now)

\* Mutant: each weekday's next date from the reference date on.
calculate_date_weekday_mapping_Forward(now) ==
  [w \in 0 .. 6 |-> DateOf(now) + ((w - WeekdayOfDate(DateOf(now))) % 7)]

calculate_date_weekday_mapping(now) == DateWeekdayLoop(<<>>, 0, now)

get_weekday(item) == WeekdayOfDate(DateOf(item.timestamp_utc))

\* itertools.groupby: the maximal runs of adjacent items with equal keys; the
\* dict comprehension then keeps, for each key, the last run with that key.
RECURSIVE GroupRuns(_, _, _)
GroupRuns(observations, i, grouped) ==
  IF i > Len(observations)
    THEN grouped
    ELSE LET key == get_weekday(observations[i])
             n == Len(grouped)
         IN IF n > 0 /\ grouped[n][1] = key
              THEN GroupRuns(observations, i + 1,
                     [grouped EXCEPT ![n] = <<key, Append(@[2], observations[i])>>])
              ELSE GroupRuns(observations, i + 1,
                     Append(grouped, <<key, <<observations[i]>> >>))

RECURSIVE DictOfRuns(_, _, _)
DictOfRuns(runs, i, dict) ==
  IF i > Len(runs)
    THEN dict
    ELSE DictOfRuns(runs, i + 1, (runs[i][1] :> runs[i][2]) @@ dict)

group_observations_by_date(observations) ==
  DictOfRuns(GroupRuns(observations, 1, <<>>), 1, <<>>)

\* grouped_observations.get(day, [])
DictGet(dict, key) == IF key \in DOMAIN dict THEN dict[key] ELSE <<>>

filter_recent_observations(observations, now) ==
  LET one_week_ago == now - 7 * SecondsPerDay
      Recent(observation) == observation.timestamp_utc >= one_week_ago
  IN SelectSeq(observations, Recent)

IntervalLength == (60 \div INTERVALS_PER_HOUR) * 60

\* The while loop yields (current_time, current_time + interval_length) for
\* current_time = start, start + interval_length, ... as long as
\* current_time < end: IntervalCount(start, end) times.
\* Mutant: a window whose end is not after its start runs over midnight.
IntervalCount_OverMidnight(start, end) ==
  IF start < end
    THEN (end - start + IntervalLength - 1) \div IntervalLength
    ELSE (end + SecondsPerDay - start + IntervalLength - 1) \div IntervalLength

IntervalCount(start, end) ==
  IF start < end THEN (end - start + IntervalLength - 1) \div IntervalLength ELSE 0

generate_time_intervals(start, end) ==
  [k \in 1 .. IntervalCount(start, end) |->
     <<start + (k - 1) * IntervalLength, start + k * IntervalLength>>]

\* True and False count as 1 and 0 in the arithmetic.
StateValue(is_active) == IF is_active THEN 1 ELSE 0

\* Mutant: the state of the earlier poll holds until the later poll.
linear_interpolation_Hold(start_time, end_time, start_state, end_state, timestamp) ==
  <<StateValue(start_state), 1>>

linear_interpolation(start_time, end_time, start_state, end_state, timestamp) ==
  IF start_time = end_time
    THEN <<StateValue(start_state), 1>>
    ELSE <<StateValue(start_state) * (end_time - start_time)
             + (timestamp - start_time) * (StateValue(end_state) - StateValue(start_state)),
           end_time - start_time>>

RECURSIVE StateScan(_, _, _)
StateScan(timestamp, observations, i) ==
  IF i > Len(observations) - 1
    THEN <<0, 1>>
    ELSE IF observations[i].timestamp_utc <= timestamp
            /\ timestamp <= observations[i + 1].timestamp_utc
           THEN linear_interpolation(observations[i].timestamp_utc,
                                     observations[i + 1].timestamp_utc,
                                     observations[i].is_active,
                                     observations[i + 1].is_active,
                                     timestamp)
           ELSE StateScan(timestamp, observations, i + 1)

\* Mutant: the default when no two polls bracket the timestamp is True.
get_state_at_timestamp_DefaultTrue(timestamp, observations) ==
  IF \E i \in 1 .. Len(observations) - 1 :
       observations[i].timestamp_utc <= timestamp
         /\ timestamp <= observations[i + 1].timestamp_utc
    THEN StateScan(timestamp, observations, 1)
    ELSE <<1, 1>>

get_state_at_timestamp(timestamp, observations) == StateScan(timestamp, observations, 1)

classify_time_intervals(observations, start_utc, end_utc) ==
  LET intervals == generate_time_intervals(start_utc, end_utc)
  IN [k \in 1 .. Len(intervals) |->
        [start_time |-> intervals[k][1],
         end_time |-> intervals[k][2],
         state |-> get_state_at_timestamp(intervals[k][1], observations)]]

\* Mutant: a state counts as up from one half on.
Truthy_FromOneHalf(state) == 2 * state[1] >= state[2]

\* `if state:' - a float or bool is true when it is not zero.
Truthy(state) == state[1] # 0

\* total_seconds() / 3600 and total_seconds() / 60, as scaled field values.
InHours(seconds) == (seconds * FieldScale) \div SecondsPerHour
\* Mutant: the hourly fields in seconds.
InMinutes_InSeconds(seconds) == seconds * FieldScale

InMinutes(seconds) == (seconds * FieldScale) \div 60

ZeroSummary ==
  [uptime_last_hour |-> 0, downtime_last_hour |-> 0,
   uptime_last_day |-> 0, downtime_last_day |-> 0,
   uptime_last_week |-> 0, downtime_last_week |-> 0]

\* The inner loop of calculate_uptime_downtime for one interval: the weekly
\* bucket first.
AddWeek(sums, interval, now) ==
  LET last_week_start == now - 7 * SecondsPerDay
      length == interval.end_time - interval.start_time
  IN IF interval.start_time >= last_week_start
       THEN IF Truthy(interval.state)
              THEN [sums EXCEPT !.uptime_last_week = @ + InHours(length)]
              ELSE [sums EXCEPT !.downtime_last_week = @ + InHours(length)]
       ELSE sums

\* The hourly bucket, then the daily bucket.
AddHourAndDay(sums, interval, now) ==
  LET last_hour_start == now - SecondsPerHour
      last_day_start == now - SecondsPerDay
      length == interval.end_time - interval.start_time
      hour ==
        IF interval.start_time >= last_hour_start
          THEN IF Truthy(interval.state)
                 THEN [sums EXCEPT !.uptime_last_hour = @ + InMinutes(length)]
                 ELSE [sums EXCEPT !.downtime_last_hour = @ + InMinutes(length)]
          ELSE sums
  IN IF interval.start_time >= last_day_start
       THEN IF Truthy(interval.state)
              THEN [hour EXCEPT !.uptime_last_day = @ + InHours(length)]
              ELSE [hour EXCEPT !.downtime_last_day = @ + InHours(length)]
       ELSE hour

\* Mutant: the hourly and daily buckets without `if weekday == current_weekday'.
AddInterval_AnyWeekday(sums, weekday, interval, now) ==
  AddHourAndDay(AddWeek(sums, interval, now), interval, now)

\* The body of the inner loop for one interval of the given weekday.
AddInterval(sums, weekday, interval, now) ==
  IF weekday = WeekdayOfDate(DateOf(now))
    THEN AddHourAndDay(AddWeek(sums, interval, now), interval, now)
    ELSE AddWeek(sums, interval, now)

\* The six sums after the two nested loops.  Every interval adds to the sums
\* independently of the others, so the loops are evaluated by halving.
AddSummaries(a, b) ==
  [uptime_last_hour |-> a.uptime_last_hour + b.uptime_last_hour,
   downtime_last_hour |-> a.downtime_last_hour + b.downtime_last_hour,
   uptime_last_day |-> a.uptime_last_day + b.uptime_last_day,
   downtime_last_day |-> a.downtime_last_day + b.downtime_last_day,
   uptime_last_week |-> a.uptime_last_week + b.uptime_last_week,
   downtime_last_week |-> a.downtime_last_week + b.downtime_last_week]

RECURSIVE AddIntervals(_, _, _, _, _)
AddIntervals(weekday, result, lo, hi, now) ==
  IF lo > hi
    THEN ZeroSummary
    ELSE IF lo = hi
           THEN AddInterval(ZeroSummary, weekday, result[lo], now)
           ELSE LET mid == (lo + hi) \div 2
                IN AddSummaries(AddIntervals(weekday, result, lo, mid, now),
                                AddIntervals(weekday, result, mid + 1, hi, now))

RECURSIVE AddWeekdays(_, _, _)
AddWeekdays(classified, weekday, now) ==
  IF weekday > 6
    THEN ZeroSummary
    ELSE AddSummaries(
           AddIntervals(weekday, classified[weekday], 1, Len(classified[weekday]), now),
           AddWeekdays(classified, weekday + 1, now))

calculate_uptime_downtime(classified, now) == AddWeekdays(classified, 0, now)

\* The dict comprehension of generate_store_report.
ClassifyWeek(grouped, hours, mapping) ==
  [day \in Weekdays |->
     classify_time_intervals(DictGet(grouped, day),
                             Combine(mapping[day], hours[day].start_utc),
                             Combine(mapping[day], hours[day].end_utc))]

StoreReport(store_id, summary) == [store |-> store_id] @@ summary

generate_store_report(store_id, observations, BH, TZ, now, wall_date, mapping) ==
  LET hours == get_business_hours_by_store(store_id, BH, TZ, wall_date)
      recent_observations == filter_recent_observations(observations, now)
      grouped == group_observations_by_date(recent_observations)
  IN IF ~hours.ok
       THEN Raise
       ELSE Return(StoreReport(store_id,
              calculate_uptime_downtime(ClassifyWeek(grouped, hours.val, mapping), now)))

\* try: ... except Exception: print(...) - and the function ends, returning None.
process_store_group(store_id, observations, BH, TZ, now, wall_date, mapping) ==
  LET r == generate_store_report(store_id, observations, BH, TZ, now, wall_date, mapping)
  IN IF r.ok THEN r.val ELSE NoneValue

\* ------------------------------------------------------------ the ORM reads
\* values_list("store", "timestamp_utc", "is_active").order_by("store", "timestamp_utc")
\* Mutant: order_by("timestamp_utc", "store").
RowBefore_ByTimestamp(a, b) ==
  \/ a.timestamp_utc < b.timestamp_utc
  \/ a.timestamp_utc = b.timestamp_utc /\ a.store <= b.store

RowBefore(a, b) ==
  \/ a.store < b.store
  \/ a.store = b.store /\ a.timestamp_utc <= b.timestamp_utc

RECURSIVE OrderBy(_)
OrderBy(rows) ==
  IF rows = {}
    THEN <<>>
    ELSE LET first == CHOOSE a \in rows : \A b \in rows : RowBefore(a, b)
         IN <<first>> \o OrderBy(rows \ {first})

\* The polls of one entity, ascending by timestamp.
ObservationsOf(store_id, polls) == OrderBy({p \in polls : p.store = store_id})

\* ------------------------------------------------------------ inputs
\* Reference instants: Wednesday 18:13:22 (the configured one, 2023-01-25)
\* and a Monday 00:30:00, whose trailing hour starts on the Sunday before.
RefInstants ==
  {Combine(16, TimeOfDay(18, 13, 22)), Combine(21, TimeOfDay(0, 30, 0))}

\* Wall-clock dates of a run: 2023-01-25 (standard time in America/Chicago)
\* and 2023-07-26 (daylight saving time).
WallClockDates == {16, 198}

\* Poll timestamps, relative to the reference instant: older than the week,
\* the first hour of the week, two hours ago, half an hour ago.
PollTimes(now) ==
  {now - 8 * SecondsPerDay,
   now - 7 * SecondsPerDay + SecondsPerHour,
   now - 2 * SecondsPerHour,
   now - 30 * 60}

PollRows(store_id, now) ==
  [store : {store_id}, timestamp_utc : PollTimes(now), is_active : BOOLEAN]

\* unique_together = ["store", "timestamp_utc"]
UniquePolls(rows) ==
  \A a, b \in rows : a.store = b.store /\ a.timestamp_utc = b.timestamp_utc => a = b

PollSets(store_id, now) ==
  {rows \in SUBSET PollRows(store_id, now) :
     Cardinality(rows) <= MaxPolls /\ UniquePolls(rows)}

\* Operating-hours rows: on the reference weekday, and with a day that is no
\* weekday (create_business_hours_objects stores int(day) of any integer).
HoursDays(now) == {WeekdayOfDate(DateOf(now)), 7, -1}

LocalWindows ==
  {<<TimeOfDay(9, 0, 0), TimeOfDay(17, 30, 0)>>,
   <<TimeOfDay(9, 0, 0), TimeOfDay(21, 0, 0)>>}

HoursRows(store_id, now) ==
  {[store |-> store_id, day |-> d, start_time_local |-> w[1], end_time_local |-> w[2]] :
     d \in HoursDays(now), w \in LocalWindows}

\* unique_together = ["store", "day"]
UniqueHours(rows) ==
  \A a, b \in rows : a.store = b.store /\ a.day = b.day => a = b

HoursSets(store_id, now) ==
  {rows \in SUBSET HoursRows(store_id, now) :
     Cardinality(rows) <= MaxHoursRows /\ UniqueHours(rows)}

ZoneNames == {"Asia/Kolkata"}

\* create_timezone_objects keeps one row per store.
TimezoneSets(store_id) ==
  {{}} \cup {{[store |-> store_id, timezone_str |-> z]} : z \in ZoneNames}

\* The records of a second entity, present in every table.
NeighbourPolls(now) ==
  {[store |-> 2, timestamp_utc |-> now - SecondsPerHour, is_active |-> TRUE]}
NeighbourHours(now) ==
  {[store |-> 2, day |-> WeekdayOfDate(DateOf(now)),
    start_time_local |-> TimeOfDay(10, 0, 0), end_time_local |-> TimeOfDay(12, 0, 0)]}
NeighbourTimezone == {[store |-> 2, timezone_str |-> "Asia/Kolkata"]}

\* ------------------------------------------------------------ the engine, staged
\* generate_store_report for one entity, one statement group at a time.
evars == <<e_pc, e_store, business_hours_data, grouped_observations,
           classified_intervals, store_report>>
tables == <<Store, BusinessHours, Timezone, current_timestamp, today>>

rvars == <<Report, g_pc, grouped_stores, date_weekday_mapping, store_data_by_id>>

vars == <<Store, BusinessHours, Timezone, current_timestamp, today,
          e_pc, e_store, business_hours_data, grouped_observations,
          classified_intervals, store_report,
          Report, g_pc, grouped_stores, date_weekday_mapping, store_data_by_id,
          is_importing, i_pc, loaded, response, u_call, u_result>>

svars == <<is_importing, i_pc, loaded, response>>
uvars == <<u_call, u_result>>

\* No import is running and no request has been answered.
ServiceIdle ==
  /\ is_importing = FALSE
  /\ i_pc = "idle"
  /\ loaded = {}
  /\ response = NoneValue

UnitsIdle ==
  /\ u_call = NoneValue
  /\ u_result = NoneValue

NoReports ==
  /\ Report = <<>>
  /\ g_pc = <<>>
  /\ grouped_stores = <<>>
  /\ date_weekday_mapping = <<>>
  /\ store_data_by_id = <<>>

EngineIdle ==
  /\ e_pc = "idle"
  /\ e_store = 0
  /\ business_hours_data = <<>>
  /\ grouped_observations = <<>>
  /\ classified_intervals = <<>>
  /\ store_report = NoneValue

EngineInit ==
  /\ current_timestamp \in RefInstants
  /\ today \in WallClockDates
  /\ \E polls \in PollSets(1, current_timestamp) :
       Store = polls \cup NeighbourPolls(current_timestamp)
  /\ \E hours \in HoursSets(1, current_timestamp) :
       BusinessHours = hours \cup NeighbourHours(current_timestamp)
  /\ \E zone \in TimezoneSets(1) : Timezone = zone \cup NeighbourTimezone
  /\ e_pc = "start"
  /\ e_store = 1
  /\ business_hours_data = <<>>
  /\ grouped_observations = <<>>
  /\ classified_intervals = <<>>
  /\ store_report = NoneValue
  /\ NoReports
  /\ ServiceIdle
  /\ UnitsIdle

\* business_hours_data = get_business_hours_by_store(store_id)
EngineBusinessHours ==
  /\ e_pc = "start"
  /\ LET hours == get_business_hours_by_store(e_store, BusinessHours, Timezone, today)
     IN IF hours.ok
          THEN /\ business_hours_data' = hours.val
               /\ e_pc' = "hours"
          ELSE /\ business_hours_data' = business_hours_data
               /\ e_pc' = "raised"
  /\ UNCHANGED <<tables, e_store, grouped_observations, classified_intervals, store_report,
                 rvars, svars, uvars>>

\* recent_observations = filter_recent_observations(...);
\* grouped_observations = group_observations_by_date(recent_observations)
EngineGroup ==
  /\ e_pc = "hours"
  /\ grouped_observations' =
       group_observations_by_date(
         filter_recent_observations(ObservationsOf(e_store, Store), current_timestamp))
  /\ e_pc' = "grouped"
  /\ UNCHANGED <<tables, e_store, business_hours_data, classified_intervals, store_report,
                 rvars, svars, uvars>>

\* classified_intervals = {day: classify_time_intervals(...) for day in range(7)}
EngineClassify ==
  /\ e_pc = "grouped"
  /\ classified_intervals' =
       ClassifyWeek(grouped_observations, business_hours_data,
                    calculate_date_weekday_mapping(current_timestamp))
  /\ e_pc' = "classified"
  /\ UNCHANGED <<tables, e_store, business_hours_data, grouped_observations, store_report,
                 rvars, svars, uvars>>

\* uptime_downtime_summary = calculate_uptime_downtime(classified_intervals);
\* store_report = StoreReport(store=store_id, **uptime_downtime_summary)
EngineAggregate ==
  /\ e_pc = "classified"
  /\ store_report' =
       StoreReport(e_store, calculate_uptime_downtime(classified_intervals, current_timestamp))
  /\ e_pc' = "done"
  /\ UNCHANGED <<tables, e_store, business_hours_data, grouped_observations,
                 classified_intervals, rvars, svars, uvars>>

EngineNext ==
  \/ EngineBusinessHours
  \/ EngineGroup
  \/ EngineClassify
  \/ EngineAggregate

SpecEngine == EngineInit /\ [][EngineNext]_vars

\* ------------------------------------------------------------ the report run
MaxReports == 2

\* groupby(all_stores_data, key=itemgetter(0)): the maximal runs of adjacent
\* rows with the same store, as (key, list(group)) pairs.
RECURSIVE GroupByStore(_, _, _)
GroupByStore(all_stores_data, i, grouped) ==
  IF i > Len(all_stores_data)
    THEN grouped
    ELSE LET key == all_stores_data[i].store
             n == Len(grouped)
         IN IF n > 0 /\ grouped[n][1] = key
              THEN GroupByStore(all_stores_data, i + 1,
                     [grouped EXCEPT ![n] = <<key, Append(@[2], all_stores_data[i])>>])
              ELSE GroupByStore(all_stores_data, i + 1,
                     Append(grouped, <<key, <<all_stores_data[i]>> >>))

GroupedStores(polls) == GroupByStore(OrderBy(polls), 1, <<>>)

\* StoreReport.serialize; called on None it raises AttributeError.
serialize(report) ==
  IF IsNone(report)
    THEN Raise
    ELSE Return([store |-> report.store,
                 uptime_last_hour |-> report.uptime_last_hour,
                 uptime_last_day |-> report.uptime_last_day,
                 uptime_last_week |-> report.uptime_last_week,
                 downtime_last_hour |-> report.downtime_last_hour,
                 downtime_last_day |-> report.downtime_last_day,
                 downtime_last_week |-> report.downtime_last_week])

\* data_list = [store_report.serialize() for store_report in store_reports]
SerializeAll(store_reports) ==
  IF \E i \in DOMAIN store_reports : ~serialize(store_reports[i]).ok
    THEN Raise
    ELSE Return([i \in DOMAIN store_reports |-> serialize(store_reports[i]).val])

\* Inputs of the runs.  Both entities have an operating-hours row for every
\* weekday, 11:00:00 to 13:00:00 local time, and either of them may have one
\* more row whose day is no weekday.  Entity 1 has no polls or the two polls
\* "active two hours ago, inactive half an hour ago", and no timezone row or
\* a row naming an unknown zone; entity 2 has one poll and no timezone row.
RunPollSets(store_id, now) ==
  IF store_id = 1
    THEN {{},
          {[store |-> 1, timestamp_utc |-> now - 2 * SecondsPerHour, is_active |-> TRUE],
           [store |-> 1, timestamp_utc |-> now - 30 * 60, is_active |-> FALSE]}}
    ELSE {{[store |-> store_id, timestamp_utc |-> now - SecondsPerHour, is_active |-> TRUE]}}

RunHoursRow(store_id, d) ==
  [store |-> store_id, day |-> d,
   start_time_local |-> TimeOfDay(11, 0, 0), end_time_local |-> TimeOfDay(13, 0, 0)]

RunHoursSets(store_id) ==
  {{RunHoursRow(store_id, d) : d \in Weekdays},
   {RunHoursRow(store_id, d) : d \in Weekdays \cup {7}}}

RunTimezoneSets(store_id) ==
  IF store_id = 1
    THEN {{}, {[store |-> 1, timezone_str |-> "Mars/Phobos"]}}
    ELSE {{}}

StoreIds == {1, 2}

Init ==
  /\ current_timestamp = Combine(16, TimeOfDay(18, 13, 22))
  /\ today = 16
  /\ \E p1 \in RunPollSets(1, current_timestamp), p2 \in RunPollSets(2, current_timestamp) :
       Store = p1 \cup p2
  /\ \E h1 \in RunHoursSets(1), h2 \in RunHoursSets(2) : BusinessHours = h1 \cup h2
  /\ \E z1 \in RunTimezoneSets(1), z2 \in RunTimezoneSets(2) : Timezone = z1 \cup z2
  /\ EngineIdle
  /\ NoReports
  /\ ServiceIdle
  /\ UnitsIdle

\* The wall clock of the host moves on to a later date.
AdvanceClock ==
  /\ \E d \in WallClockDates : d > today /\ today' = d
  /\ UNCHANGED <<Store, BusinessHours, Timezone, current_timestamp, evars, rvars, svars, uvars>>

\* The answer of both views while get_is_importing() is true.
ImportingError == [status |-> 500, error |-> "Data is still being loaded"]

\* trigger_report: refused while the flag is set; otherwise create_report()
\* saves a new Report, generate_report_async hands generate_report to a pool
\* process, and the answer carries the new report's id.
TriggerReport ==
  /\ IF is_importing
       THEN /\ response' = ImportingError
            /\ UNCHANGED rvars
       ELSE /\ Len(Report) < MaxReports
            /\ Report' = Append(Report, [store_data |-> <<>>, is_completed |-> FALSE])
            /\ g_pc' = Append(g_pc, "queued")
            /\ grouped_stores' = Append(grouped_stores, <<>>)
            /\ date_weekday_mapping' = Append(date_weekday_mapping, <<>>)
            /\ store_data_by_id' = Append(store_data_by_id, <<>>)
            /\ response' = [status |-> 201, report_id |-> Len(Report) + 1]
  /\ UNCHANGED <<tables, evars, uvars, is_importing, i_pc, loaded>>

\* generate_store_data up to executor.map: load the polls in (store, timestamp)
\* order, group them, compute the mapping, submit one task per group.
Dispatch(id) ==
  /\ g_pc[id] = "queued"
  /\ grouped_stores' = [grouped_stores EXCEPT ![id] = GroupedStores(Store)]
  /\ date_weekday_mapping' =
       [date_weekday_mapping EXCEPT ![id] = calculate_date_weekday_mapping(current_timestamp)]
  /\ g_pc' = [g_pc EXCEPT ![id] = "dispatched"]
  /\ UNCHANGED <<tables, evars, svars, uvars, Report, store_data_by_id>>

\* Mutant: results are collected in the order in which the tasks finish.
ResultSlot_CompletionOrder(i, results) == Cardinality(DOMAIN results) + 1

\* executor.map yields the results in the order of its inputs: the result of
\* group i is element i of the list, whenever its task finishes.
ResultSlot(i, results) == i

\* A worker thread runs process_store_group on group i.
ProcessStoreGroup(id, i) ==
  /\ g_pc[id] = "dispatched"
  /\ i \in DOMAIN grouped_stores[id]
  /\ i \notin DOMAIN store_data_by_id[id]
  /\ store_data_by_id' =
       [store_data_by_id EXCEPT ![id] =
          (ResultSlot(i, @) :>
             process_store_group(grouped_stores[id][i][1], grouped_stores[id][i][2],
                                 BusinessHours, Timezone, current_timestamp, today,
                                 date_weekday_mapping[id])) @@ @]
  /\ UNCHANGED <<tables, evars, svars, uvars, Report, g_pc, grouped_stores,
                 date_weekday_mapping>>

\* All tasks are done: generate_store_data returns the list of their results
\* and generate_report passes it to Report.set_store_data, which serializes
\* every element, stores the list and sets is_completed in one save.
SetStoreData(id) ==
  /\ g_pc[id] = "dispatched"
  /\ DOMAIN store_data_by_id[id] = DOMAIN grouped_stores[id]
  /\ LET data_list == SerializeAll(store_data_by_id[id])
     IN IF data_list.ok
          THEN /\ Report' = [Report EXCEPT ![id] =
                               [store_data |-> data_list.val, is_completed |-> TRUE]]
               /\ g_pc' = [g_pc EXCEPT ![id] = "done"]
          ELSE /\ Report' = Report
               /\ g_pc' = [g_pc EXCEPT ![id] = "raised"]
  /\ UNCHANGED <<tables, evars, svars, uvars, grouped_stores, date_weekday_mapping,
                 store_data_by_id>>

Next ==
  \/ AdvanceClock
  \/ TriggerReport
  \/ \E id \in DOMAIN g_pc : Dispatch(id)
  \/ \E id \in DOMAIN g_pc : \E i \in DOMAIN grouped_stores[id] : ProcessStoreGroup(id, i)
  \/ \E id \in DOMAIN g_pc : SetStoreData(id)

Spec == Init /\ [][Next]_vars

\* ------------------------------------------------------------ claims on the report run
\* The list generate_store_data returned in run id, once it has returned.
Returned(id) == g_pc[id] \in {"done", "raised"}

\* The entities of run id whose generate_store_report returns a report.
Succeeds(id, i) ==
  generate_store_report(grouped_stores[id][i][1], grouped_stores[id][i][2],
                        BusinessHours, Timezone, current_timestamp, today,
                        date_weekday_mapping[id]).ok

ReportsOf(id, store_id) ==
  {j \in DOMAIN store_data_by_id[id] :
     ~IsNone(store_data_by_id[id][j]) /\ store_data_by_id[id][j].store = store_id}

\* C1: the list returned by generate_store_data holds no element (no None)
\* for an entity whose computation raised, and exactly one StoreReport for
\* every entity whose computation succeeded.
C1_FailedEntityOmitted ==
  \A id \in DOMAIN g_pc :
    Returned(id) =>
      /\ \A j \in DOMAIN store_data_by_id[id] : ~IsNone(store_data_by_id[id][j])
      /\ \A i \in DOMAIN grouped_stores[id] :
           Cardinality(ReportsOf(id, grouped_stores[id][i][1]))
             = (IF Succeeds(id, i) THEN 1 ELSE 0)

\* C2: a run whose groups were dispatched completes: when its generate_report
\* task has ended, set_store_data has stored the reports of the successful
\* entities and the Report has is_completed = TRUE, also when entities failed.
C2_DispatchedRunCompletes ==
  \A id \in DOMAIN g_pc :
    Returned(id) =>
      /\ Report[id].is_completed
      /\ \A i \in DOMAIN grouped_stores[id] :
           Succeeds(id, i) =>
             \E k \in DOMAIN Report[id].store_data :
               Report[id].store_data[k].store = grouped_stores[id][i][1]

\* Table `table' with the rows of entity E replaced by `rows'.
ReplaceRows(table, E, rows) == {r \in table : r.store # E} \cup rows

\* Other records entity E could have: any of the inputs of the runs, or none.
OtherRecords(E) ==
  [polls : RunPollSets(E, current_timestamp) \cup {{}},
   hours : RunHoursSets(E) \cup {{}},
   zone : RunTimezoneSets(E)]

\* The result process_store_group gives for entity store_id when the records
\* of entity E are replaced by alt: one result per group of that entity.
ResultsWith(store_id, E, alt) ==
  LET groups == GroupedStores(ReplaceRows(Store, E, alt.polls))
  IN {process_store_group(store_id, groups[g][2],
                          ReplaceRows(BusinessHours, E, alt.hours),
                          ReplaceRows(Timezone, E, alt.zone),
                          current_timestamp, today,
                          calculate_date_weekday_mapping(current_timestamp)) :
        g \in {h \in DOMAIN groups : groups[h][1] = store_id}}

\* C3: per-entity isolation.  The result a task stores for an entity is the
\* result of the run in which the records of any other entity E are replaced
\* by other records (malformed ones included), with the same reference
\* instant.
C3_PerEntityIsolation ==
  [][\A id \in DOMAIN g_pc : \A i \in DOMAIN grouped_stores[id] :
       (i \notin DOMAIN store_data_by_id[id] /\ i \in DOMAIN store_data_by_id'[id]) =>
         \A E \in StoreIds \ {grouped_stores[id][i][1]} : \A alt \in OtherRecords(E) :
           ResultsWith(grouped_stores[id][i][1], E, alt) = {store_data_by_id'[id][i]}]_vars

\* A run in which one entity failed and another one got its report.
C3_Witness ==
  \E id \in DOMAIN g_pc : \E i, j \in DOMAIN store_data_by_id[id] :
    /\ IsNone(store_data_by_id[id][i])
    /\ ~IsNone(store_data_by_id[id][j])
    /\ store_data_by_id[id][j].uptime_last_week > 0

\* All tasks of run id have stored their results.
AllStored(id) ==
  /\ g_pc[id] # "queued"
  /\ DOMAIN store_data_by_id[id] = DOMAIN grouped_stores[id]

\* C9: determinism.  The tables and the reference instant never change, so two
\* runs get identical inputs; their results are identical for every entity,
\* whatever the wall-clock date of either run.
C9_SameInputsSameReports ==
  \A id1, id2 \in DOMAIN g_pc :
    AllStored(id1) /\ AllStored(id2) => store_data_by_id[id1] = store_data_by_id[id2]

\* ------------------------------------------------------------ claims on the engine
RefWeekday == WeekdayOfDate(DateOf(current_timestamp))

\* The total duration, in seconds, of the intervals lo..hi of a sequence.
RECURSIVE TotalLength(_, _, _)
TotalLength(intervals, lo, hi) ==
  IF lo > hi
    THEN 0
    ELSE IF lo = hi
           THEN intervals[lo].end_time - intervals[lo].start_time
           ELSE LET mid == (lo + hi) \div 2
                IN TotalLength(intervals, lo, mid) + TotalLength(intervals, mid + 1, hi)

\* The total duration of the classified intervals of weekday w that pass Test.
LengthWhere(w, Test(_)) ==
  LET kept == SelectSeq(classified_intervals[w], Test)
  IN TotalLength(kept, 1, Len(kept))

WeekLengthWhere(Test(_)) ==
  LengthWhere(0, Test) + LengthWhere(1, Test) + LengthWhere(2, Test) + LengthWhere(3, Test)
    + LengthWhere(4, Test) + LengthWhere(5, Test) + LengthWhere(6, Test)

\* Seconds as a scaled number of hours, and of minutes.
HoursOf(seconds) == seconds * (FieldScale \div (60 * 60))
MinutesOf(seconds) == seconds * (FieldScale \div 60)

InLastHour(interval) == interval.start_time >= current_timestamp - 60 * 60
InLastDay(interval) == interval.start_time >= current_timestamp - 24 * 60 * 60
InLastWeek(interval) == interval.start_time >= current_timestamp - 7 * 24 * 60 * 60
IsUp(interval) == interval.state[1] # 0
IsDown(interval) == interval.state[1] = 0

\* Two consecutive polls of the weekday's group bracket instant t.
Bracketed(t, observations) ==
  \E i \in 1 .. Len(observations) - 1 :
    observations[i].timestamp_utc <= t /\ t <= observations[i + 1].timestamp_utc

FullDayHours ==
  \A w \in Weekdays :
    /\ business_hours_data[w].start_utc = TimeOfDay(0, 0, 0)
    /\ business_hours_data[w].end_utc = TimeOfDay(23, 59, 59)

\* C4: with full-day operating hours the hourly bucket covers exactly the
\* hour before the reference instant: uptime_last_hour + downtime_last_hour
\* is 60 minutes.
C4_HourlyBucketIsSixtyMinutes ==
  (e_pc = "done" /\ FullDayHours) =>
    store_report.uptime_last_hour + store_report.downtime_last_hour = 60 * FieldScale

\* C5: every classified interval goes to exactly one of uptime and downtime
\* in each bucket it qualifies for, by the truthiness of its state: each
\* uptime field is the sum over the qualifying intervals with a non-zero
\* state, each downtime field the sum over those with a zero state, and an
\* interval whose start no two consecutive polls bracket has a zero state.
C5_UptimeByTruthiness ==
  e_pc = "done" =>
    LET UpHour(iv) == InLastHour(iv) /\ IsUp(iv)
        DownHour(iv) == InLastHour(iv) /\ IsDown(iv)
        UpDay(iv) == InLastDay(iv) /\ IsUp(iv)
        DownDay(iv) == InLastDay(iv) /\ IsDown(iv)
        UpWeek(iv) == InLastWeek(iv) /\ IsUp(iv)
        DownWeek(iv) == InLastWeek(iv) /\ IsDown(iv)
    IN /\ \A w \in Weekdays : \A k \in DOMAIN classified_intervals[w] :
            ~Bracketed(classified_intervals[w][k].start_time,
                       DictGet(grouped_observations, w))
              => IsDown(classified_intervals[w][k])
       /\ store_report.uptime_last_hour = MinutesOf(LengthWhere(RefWeekday, UpHour))
       /\ store_report.downtime_last_hour = MinutesOf(LengthWhere(RefWeekday, DownHour))
       /\ store_report.uptime_last_day = HoursOf(LengthWhere(RefWeekday, UpDay))
       /\ store_report.downtime_last_day = HoursOf(LengthWhere(RefWeekday, DownDay))
       /\ store_report.uptime_last_week = HoursOf(WeekLengthWhere(UpWeek))
       /\ store_report.downtime_last_week = HoursOf(WeekLengthWhere(DownWeek))

\* A report with an interval of the last hour that is up by a fractional
\* state and an interval in a signal gap, filling both hourly fields.
C5_Witness ==
  /\ e_pc = "done"
  /\ \E k \in DOMAIN classified_intervals[RefWeekday] :
       LET iv == classified_intervals[RefWeekday][k]
       IN /\ InLastHour(iv)
          /\ Bracketed(iv.start_time, DictGet(grouped_observations, RefWeekday))
          /\ iv.state[1] > 0
          /\ iv.state[1] < iv.state[2]
  /\ \E w \in Weekdays : \E k \in DOMAIN classified_intervals[w] :
       ~Bracketed(classified_intervals[w][k].start_time, DictGet(grouped_observations, w))
  /\ store_report.uptime_last_hour > 0
  /\ store_report.downtime_last_hour > 0

\* The polls of the entity exist and are all older than the trailing week.
OnlyOldPolls ==
  /\ \E p \in Store : p.store = e_store
  /\ \A p \in Store :
       p.store = e_store => p.timestamp_utc < current_timestamp - 7 * 24 * 60 * 60

\* C6: an entity with polls but none in the trailing 7 days has no uptime in
\* any bucket, and its weekly downtime is the total duration of all the
\* classified intervals of its 7 operating windows.
C6_NoRecentPollsAllDowntime ==
  (e_pc = "done" /\ OnlyOldPolls) =>
    LET Every(iv) == TRUE
    IN /\ store_report.uptime_last_hour = 0
       /\ store_report.uptime_last_day = 0
       /\ store_report.uptime_last_week = 0
       /\ store_report.downtime_last_week = HoursOf(WeekLengthWhere(Every))

C6_Witness ==
  /\ e_pc = "done"
  /\ OnlyOldPolls
  /\ store_report.downtime_last_week > 0
  /\ \E w \in Weekdays : Len(classified_intervals[w]) > 0

\* C7: the weekly total is the total duration of the classified intervals
\* that lie within the trailing 7 days ending at the reference instant; an
\* interval outside [reference - 7 days, reference] adds nothing.
C7_WeeklyTotalWithinTrailingWeek ==
  e_pc = "done" =>
    LET Within(iv) == InLastWeek(iv) /\ iv.end_time <= current_timestamp
    IN store_report.uptime_last_week + store_report.downtime_last_week
         = HoursOf(WeekLengthWhere(Within))

\* C8: the hourly and daily buckets hold only intervals of the reference
\* weekday: the hourly fields sum to the minutes of those starting at or
\* after reference - 1 hour, the daily fields to the hours of those starting
\* at or after reference - 1 day; the other six weekdays add nothing.
C8_HourlyDailyOnlyReferenceWeekday ==
  e_pc = "done" =>
    /\ store_report.uptime_last_hour + store_report.downtime_last_hour
         = MinutesOf(LengthWhere(RefWeekday, InLastHour))
    /\ store_report.uptime_last_day + store_report.downtime_last_day
         = HoursOf(LengthWhere(RefWeekday, InLastDay))

\* A report for which another weekday has intervals starting within the last
\* hour, while the reference weekday fills the hourly and daily buckets.
C8_Witness ==
  /\ e_pc = "done"
  /\ \E w \in Weekdays \ {RefWeekday} : \E k \in DOMAIN classified_intervals[w] :
       InLastHour(classified_intervals[w][k])
  /\ store_report.uptime_last_hour + store_report.downtime_last_hour > 0
  /\ store_report.uptime_last_day + store_report.downtime_last_day
       < store_report.uptime_last_week + store_report.downtime_last_week

\* The operating-hours rows of the entity, and those of weekday w.
HoursRowsOfEntity == {b \in BusinessHours : b.store = e_store}
ConfiguredRows(w) == {b \in HoursRowsOfEntity : b.day = w}

\* Operating-hours records carry a weekday integer 0..6.
WeekdayRowsOnly == \A b \in HoursRowsOfEntity : b.day \in Weekdays

HoursResolved == e_pc \in {"hours", "grouped", "classified", "done"}

\* C10: get_business_hours_by_store returns 7 windows indexed by weekday
\* 0..6; with records of weekdays 0..6, a weekday with a configured row
\* carries that row's times converted to UTC and every other weekday the
\* default 00:00:00-23:59:59; and with no row at all every weekday keeps the
\* default and is classified over the full 24 hours.
C10_SevenWindowsByWeekday ==
  /\ HoursResolved =>
       /\ DOMAIN business_hours_data = 0 .. 6
       /\ \A w \in Weekdays : business_hours_data[w].day = w
  /\ (HoursResolved /\ WeekdayRowsOnly) =>
       \A w \in Weekdays :
         IF ConfiguredRows(w) = {}
           THEN /\ business_hours_data[w].start_utc = TimeOfDay(0, 0, 0)
                /\ business_hours_data[w].end_utc = TimeOfDay(23, 59, 59)
           ELSE \A b \in ConfiguredRows(w) :
                  LET zone == get_timezone_info_for_store(e_store, Timezone)
                  IN /\ business_hours_data[w].start_utc =
                          convert_local_time_to_utc(b.start_time_local, zone, today).val
                     /\ business_hours_data[w].end_utc =
                          convert_local_time_to_utc(b.end_time_local, zone, today).val
  /\ (e_pc \in {"classified", "done"} /\ HoursRowsOfEntity = {}) =>
       \A w \in Weekdays :
         LET date == calculate_date_weekday_mapping(current_timestamp)[w]
             n == Len(classified_intervals[w])
         IN /\ n = 24 * INTERVALS_PER_HOUR
            /\ classified_intervals[w][1].start_time = Combine(date, 0)
            /\ classified_intervals[w][n].end_time = Combine(date + 1, 0)
            /\ TotalLength(classified_intervals[w], 1, n) = 24 * 60 * 60

\* Hours resolved for an entity with a configured weekday, whose window is no
\* longer the default, beside weekdays that keep it.
C10_Witness ==
  /\ HoursResolved
  /\ \E w \in Weekdays :
       /\ ConfiguredRows(w) # {}
       /\ business_hours_data[w].start_utc # TimeOfDay(0, 0, 0)
  /\ \E w \in Weekdays :
       /\ ConfiguredRows(w) = {}
       /\ business_hours_data[w].end_utc = TimeOfDay(23, 59, 59)

\* ------------------------------------------------------------ single calls
\* One call of one function of the engine, on arguments of its own.
MaxGroupPolls == 3

\* Reference instants on each weekday of two weeks, at the start, in the
\* course and in the last second of the day.
UnitInstants ==
  {Combine(d, tod) : d \in 14 .. 27,
                     tod \in {TimeOfDay(0, 0, 0), TimeOfDay(18, 13, 22), TimeOfDay(23, 59, 59)}}

MappingCalls == [op : {"calculate_date_weekday_mapping"}, now : UnitInstants]

\* Windows on one date: whole quarters of an hour, a remainder of 10 minutes,
\* the default window that ends at 23:59:59, and ends not after the start.
WindowStarts == {TimeOfDay(0, 0, 0), TimeOfDay(9, 0, 0), TimeOfDay(15, 0, 0)}
WindowEnds ==
  {TimeOfDay(23, 59, 59), TimeOfDay(17, 30, 0), TimeOfDay(9, 10, 0), TimeOfDay(3, 0, 0),
   TimeOfDay(15, 0, 0)}

IntervalCalls ==
  {[op |-> "generate_time_intervals", start |-> Combine(16, a), end |-> Combine(16, b)] :
     a \in WindowStarts, b \in WindowEnds}

\* Two polls at t0 <= t1, or three polls at increasing instants, and a
\* timestamp; the instants are 0, 5, 7.5 and 15 minutes after 2023-01-25 09:00.
StateInstants == {Combine(16, TimeOfDay(9, 0, 0)) + x : x \in {0, 300, 450, 900}}

PollLists ==
  {<<[timestamp_utc |-> a, is_active |-> x], [timestamp_utc |-> b, is_active |-> y]>> :
     <<a, b, x, y>> \in {q \in StateInstants \X StateInstants \X BOOLEAN \X BOOLEAN :
                            q[1] <= q[2]}}
  \cup
  {<<[timestamp_utc |-> q[1], is_active |-> q[4]], [timestamp_utc |-> q[2], is_active |-> q[5]],
     [timestamp_utc |-> q[3], is_active |-> q[6]]>> :
     q \in {r \in StateInstants \X StateInstants \X StateInstants
                    \X BOOLEAN \X BOOLEAN \X BOOLEAN : r[1] < r[2] /\ r[2] < r[3]}}

StateCalls ==
  [op : {"get_state_at_timestamp"}, timestamp : StateInstants, observations : PollLists]

\* The polls of one entity in timestamp order: older than the week, in the
\* first hour of the week, three days ago, two hours ago, half an hour ago.
GroupPollTimes(now) ==
  {now - 8 * SecondsPerDay, now - 7 * SecondsPerDay + SecondsPerHour,
   now - 3 * SecondsPerDay, now - 2 * SecondsPerHour, now - 30 * 60}

GroupCalls ==
  {[op |-> "group_observations_by_date", now |-> now,
    observations |-> OrderBy({[store |-> 1, timestamp_utc |-> t, is_active |-> TRUE] :
                                t \in times})] :
     <<now, times>> \in
       {q \in RefInstants \X SUBSET (UNION {GroupPollTimes(n) : n \in RefInstants}) :
          q[2] \subseteq GroupPollTimes(q[1]) /\ Cardinality(q[2]) <= MaxGroupPolls}}

UnitsInit ==
  /\ Store = {}
  /\ BusinessHours = {}
  /\ Timezone = {}
  /\ current_timestamp = Combine(16, TimeOfDay(18, 13, 22))
  /\ today = 16
  /\ EngineIdle
  /\ NoReports
  /\ ServiceIdle
  /\ u_call \in MappingCalls \cup IntervalCalls \cup StateCalls \cup GroupCalls
  /\ u_result = NoneValue

UnitPending(op) == u_call.op = op /\ IsNone(u_result)

UnitMapping ==
  /\ UnitPending("calculate_date_weekday_mapping")
  /\ u_result' = Return(calculate_date_weekday_mapping(u_call.now))
  /\ UNCHANGED <<tables, evars, rvars, svars, u_call>>

UnitIntervals ==
  /\ UnitPending("generate_time_intervals")
  /\ u_result' = Return(generate_time_intervals(u_call.start, u_call.end))
  /\ UNCHANGED <<tables, evars, rvars, svars, u_call>>

UnitState ==
  /\ UnitPending("get_state_at_timestamp")
  /\ u_result' = Return(get_state_at_timestamp(u_call.timestamp, u_call.observations))
  /\ UNCHANGED <<tables, evars, rvars, svars, u_call>>

\* recent_observations = filter_recent_observations(observations, now);
\* grouped_observations = group_observations_by_date(recent_observations)
UnitGroup ==
  /\ UnitPending("group_observations_by_date")
  /\ u_result' = Return(group_observations_by_date(
                          filter_recent_observations(u_call.observations, u_call.now)))
  /\ UNCHANGED <<tables, evars, rvars, svars, u_call>>

UnitsNext ==
  \/ UnitMapping
  \/ UnitIntervals
  \/ UnitState
  \/ UnitGroup

SpecUnits == UnitsInit /\ [][UnitsNext]_vars

UnitReturned(op) == u_call.op = op /\ ~IsNone(u_result)

\* ------------------------------------------------------------ claims on single calls
\* C11: the mapping calculate_date_weekday_mapping returns has exactly the
\* keys 0..6, maps each weekday to a date of that weekday, maps the
\* reference's weekday to the reference's date, and its values are the 7
\* consecutive dates reference.date - 6 .. reference.date.
C11_MappingCoversTrailingWeek ==
  UnitReturned("calculate_date_weekday_mapping") =>
    LET mapping == u_result.val
        date == DateOf(u_call.now)
    IN /\ DOMAIN mapping = 0 .. 6
       /\ \A w \in 0 .. 6 : WeekdayOfDate(mapping[w]) = w
       /\ mapping[WeekdayOfDate(date)] = date
       /\ {mapping[w] : w \in 0 .. 6} = (date - 6) .. date
       /\ Cardinality({mapping[w] : w \in 0 .. 6}) = 7

\* A mapping for a Sunday reference in the last second of the day: weekday 0
\* lies six days back.
C11_Witness ==
  /\ UnitReturned("calculate_date_weekday_mapping")
  /\ WeekdayOfDate(DateOf(u_call.now)) = 6
  /\ TimeOf(u_call.now) = TimeOfDay(23, 59, 59)
  /\ u_result.val[0] = DateOf(u_call.now) - 6

\* C12: for a window with start < end, generate_time_intervals yields
\* contiguous intervals from the window start: each next one starts where
\* the previous ended, every interval but possibly the last is 15 minutes
\* long, and the last one ends exactly at the window end, so that the
\* durations sum to end - start.
C12_IntervalsTileTheWindow ==
  (UnitReturned("generate_time_intervals") /\ u_call.start < u_call.end) =>
    LET intervals == u_result.val
        n == Len(intervals)
    IN /\ n >= 1
       /\ intervals[1][1] = u_call.start
       /\ \A k \in 1 .. n - 1 :
            /\ intervals[k + 1][1] = intervals[k][2]
            /\ intervals[k][2] - intervals[k][1] = 15 * 60
       /\ intervals[n][1] < intervals[n][2]
       /\ intervals[n][2] = u_call.end

\* is_active as the number 1 or 0.
AsNumber(is_active) == IF is_active THEN 1 ELSE 0

\* C13: for two consecutive polls (t0, s0), (t1, s1) that bracket the
\* timestamp t, the estimated state n/d is s0 + (t - t0)/(t1 - t0) * (s1 - s0):
\* it is s0 at t0 and s1 at t1, lies between min(s0, s1) and max(s0, s1), and
\* changes monotonically with t; when t0 = t1 it is s0.
C13_InterpolatedState ==
  UnitReturned("get_state_at_timestamp") =>
    \A i \in 1 .. Len(u_call.observations) - 1 :
      LET t == u_call.timestamp
          t0 == u_call.observations[i].timestamp_utc
          t1 == u_call.observations[i + 1].timestamp_utc
          s0 == AsNumber(u_call.observations[i].is_active)
          s1 == AsNumber(u_call.observations[i + 1].is_active)
          n == u_result.val[1]
          d == u_result.val[2]
      IN (t0 <= t /\ t <= t1) =>
           /\ d > 0
           /\ t0 = t1 => n = s0 * d
           /\ t0 < t1 => n * (t1 - t0) = d * (s0 * (t1 - t0) + (t - t0) * (s1 - s0))
           /\ t = t0 => n = s0 * d
           /\ (t = t1 /\ t0 < t1) => n = s1 * d
           /\ (IF s0 <= s1 THEN s0 ELSE s1) * d <= n
           /\ n <= (IF s0 <= s1 THEN s1 ELSE s0) * d
           /\ \A later \in StateInstants :
                (t <= later /\ later <= t1) =>
                  LET v == get_state_at_timestamp(later, u_call.observations)
                  IN /\ s0 <= s1 => n * v[2] <= v[1] * d
                     /\ s0 >= s1 => n * v[2] >= v[1] * d

\* A timestamp strictly between an active and a later inactive poll: the
\* state is a proper fraction.
C13_Witness ==
  /\ UnitReturned("get_state_at_timestamp")
  /\ \E i \in 1 .. Len(u_call.observations) - 1 :
       /\ u_call.observations[i].timestamp_utc < u_call.timestamp
       /\ u_call.timestamp < u_call.observations[i + 1].timestamp_utc
       /\ u_call.observations[i].is_active
       /\ ~u_call.observations[i + 1].is_active
  /\ 0 < u_result.val[1]
  /\ u_result.val[1] < u_result.val[2]

\* The positions of poll p in the group of weekday w.
PositionsIn(grouped, w, p) ==
  IF w \in DOMAIN grouped THEN {j \in DOMAIN grouped[w] : grouped[w][j] = p} ELSE {}

\* C14: group_observations_by_date partitions the polls kept by the 7-day
\* filter by weekday: every poll with timestamp at or after reference - 7
\* days is in exactly one group, the group of its timestamp's weekday, once,
\* and no kept poll is lost.
C14_GroupsPartitionKeptPolls ==
  UnitReturned("group_observations_by_date") =>
    \A k \in DOMAIN u_call.observations :
      LET p == u_call.observations[k]
      IN p.timestamp_utc >= u_call.now - 7 * 24 * 60 * 60 =>
           \A w \in 0 .. 6 :
             Cardinality(PositionsIn(u_result.val, w, p))
               = (IF w = WeekdayOfDate(DateOf(p.timestamp_utc)) THEN 1 ELSE 0)

\* ------------------------------------------------------------ more claims on the report run
\* The groups of run id whose key is store_id.
GroupsOf(id, store_id) ==
  {i \in DOMAIN grouped_stores[id] : grouped_stores[id][i][1] = store_id}

\* C15: the adjacency grouping of the polls loaded in (entity, timestamp)
\* order gives exactly one group per entity id that has polls, holding all
\* and only that entity's polls in ascending timestamp order; so one task is
\* dispatched per entity and no entity gets two results.
C15_OneGroupPerEntity ==
  \A id \in DOMAIN g_pc :
    g_pc[id] # "queued" =>
      /\ \A store_id \in StoreIds :
           Cardinality(GroupsOf(id, store_id))
             = (IF \E p \in Store : p.store = store_id THEN 1 ELSE 0)
      /\ \A i \in DOMAIN grouped_stores[id] :
           LET key == grouped_stores[id][i][1]
               group == grouped_stores[id][i][2]
           IN /\ {group[k] : k \in DOMAIN group} = {p \in Store : p.store = key}
              /\ Len(group) = Cardinality({p \in Store : p.store = key})
              /\ \A k \in 1 .. Len(group) - 1 :
                   group[k].timestamp_utc < group[k + 1].timestamp_utc
      /\ DOMAIN store_data_by_id[id] \subseteq DOMAIN grouped_stores[id]
      /\ \A store_id \in StoreIds : Cardinality(ReportsOf(id, store_id)) <= 1

\* A run over two entities whose polls interleave in time, with both results.
C15_Witness ==
  \E id \in DOMAIN g_pc :
    /\ Len(grouped_stores[id]) = 2
    /\ Len(grouped_stores[id][1][2]) = 2
    /\ grouped_stores[id][1][2][1].timestamp_utc < grouped_stores[id][2][2][1].timestamp_utc
    /\ grouped_stores[id][2][2][1].timestamp_utc < grouped_stores[id][1][2][2].timestamp_utc
    /\ Cardinality(ReportsOf(id, 1)) = 1
    /\ Cardinality(ReportsOf(id, 2)) = 1

\* ------------------------------------------------------------ the service
\* The hourly import, the two views and the report runs side by side.

\* The rows of the three CSV files, loaded again by every import.
CsvStore ==
  {[store |-> 1, timestamp_utc |-> Combine(16, TimeOfDay(16, 13, 22)), is_active |-> TRUE],
   [store |-> 1, timestamp_utc |-> Combine(16, TimeOfDay(17, 43, 22)), is_active |-> FALSE]}

CsvBusinessHours == {RunHoursRow(1, d) : d \in Weekdays}

\* The timezone file names no zone for entity 1, which has the default one.
CsvTimezone == {[store |-> 2, timezone_str |-> "Asia/Kolkata"]}

TableNames == {"Store", "BusinessHours", "Timezone"}

ServiceInit ==
  /\ Store = CsvStore
  /\ BusinessHours = CsvBusinessHours
  /\ Timezone = CsvTimezone
  /\ current_timestamp = Combine(16, TimeOfDay(18, 13, 22))
  /\ today = 16
  /\ EngineIdle
  /\ NoReports
  /\ ServiceIdle
  /\ UnitsIdle

\* load_data_after_1_hour starts a load_data process every hour, the previous
\* one having been joined; in load_db_from_csv the process first calls
\* set_is_importing(True).
ImportBegin ==
  /\ i_pc = "idle"
  /\ is_importing' = TRUE
  /\ i_pc' = "flagged"
  /\ UNCHANGED <<tables, evars, rvars, uvars, loaded, response>>

\* clear_database() deletes the rows of the three tables.
ImportClear ==
  /\ i_pc = "flagged"
  /\ Store' = {}
  /\ BusinessHours' = {}
  /\ Timezone' = {}
  /\ loaded' = {}
  /\ i_pc' = "loading"
  /\ UNCHANGED <<current_timestamp, today, evars, rvars, uvars, is_importing, response>>

\* One of the three loader processes: load_csv_data bulk-creates the rows of
\* its file.
LoadTable(name) ==
  /\ i_pc = "loading"
  /\ name \notin loaded
  /\ loaded' = loaded \cup {name}
  /\ Store' = IF name = "Store" THEN CsvStore ELSE Store
  /\ BusinessHours' = IF name = "BusinessHours" THEN CsvBusinessHours ELSE BusinessHours
  /\ Timezone' = IF name = "Timezone" THEN CsvTimezone ELSE Timezone
  /\ UNCHANGED <<current_timestamp, today, evars, rvars, uvars, is_importing, i_pc, response>>

\* Every loader has been joined: set_is_importing(False).
ImportEnd ==
  /\ i_pc = "loading"
  /\ loaded = TableNames
  /\ is_importing' = FALSE
  /\ i_pc' = "idle"
  /\ UNCHANGED <<tables, evars, rvars, uvars, loaded, response>>

\* Mutant: every stored report is answered as complete.
get_report_NoRunning(report_id) ==
  IF is_importing
    THEN ImportingError
    ELSE IF report_id \notin DOMAIN Report
           THEN [status |-> 404, error |-> "Report not found", report_id |-> report_id]
           ELSE [status |-> 200, state |-> "Complete", report_id |-> report_id]

\* The answer of the get_report view for report_id in the current state; for
\* a completed report it names the file <report_id>.csv written from the
\* report's store_data.
get_report(report_id) ==
  IF is_importing
    THEN ImportingError
    ELSE IF report_id \notin DOMAIN Report
           THEN [status |-> 404, error |-> "Report not found", report_id |-> report_id]
           ELSE IF ~Report[report_id].is_completed
                  THEN [status |-> 202, state |-> "Running", report_id |-> report_id]
                  ELSE [status |-> 200, state |-> "Complete", report_id |-> report_id]

GetReport(report_id) ==
  /\ response' = get_report(report_id)
  /\ UNCHANGED <<tables, evars, rvars, uvars, is_importing, i_pc, loaded>>

ServiceNext ==
  \/ ImportBegin
  \/ ImportClear
  \/ \E name \in TableNames : LoadTable(name)
  \/ ImportEnd
  \/ TriggerReport
  \/ \E report_id \in 1 .. Len(Report) + 1 : GetReport(report_id)
  \/ \E id \in DOMAIN g_pc : Dispatch(id)
  \/ \E id \in DOMAIN g_pc : \E i \in DOMAIN grouped_stores[id] : ProcessStoreGroup(id, i)
  \/ \E id \in DOMAIN g_pc : SetStoreData(id)

SpecService == ServiceInit /\ [][ServiceNext]_vars

\* ------------------------------------------------------------ claims on the service
\* A step in which a report run reads a table: Dispatch reads the polls, a
\* task reads the operating hours and the timezone of its entity.
ReadsTables ==
  \/ \E id \in DOMAIN g_pc : g_pc[id] = "queued" /\ g_pc'[id] = "dispatched"
  \/ \E id \in DOMAIN store_data_by_id :
       DOMAIN store_data_by_id'[id] # DOMAIN store_data_by_id[id]

\* The flag is set from before clear_database until every loader has joined.
FlagCoversImport == i_pc # "idle" => is_importing

\* While the flag is set the views answer with the error and start nothing.
ViewsRefuse ==
  is_importing =>
    /\ Len(Report') = Len(Report)
    /\ response' # response => response' = ImportingError

\* C16: the importing flag guards the data.  The flag is set from before
\* clear_database until every loader has joined, the views refuse while it
\* is set, and no report computation reads the poll, operating-hours or
\* timezone table while an import is in progress.
C16_FlagGuardsTables ==
  /\ []FlagCoversImport
  /\ [][ViewsRefuse]_vars
  /\ [][ReadsTables => ~is_importing /\ i_pc = "idle"]_vars

\* The first two parts of C16 by themselves.
C16_FlagAndViews == []FlagCoversImport /\ [][ViewsRefuse]_vars

\* A report as create_report saves it.
NewReport == [store_data |-> <<>>, is_completed |-> FALSE]

\* A request answered in this step by get_report, outside an import: 404 for
\* an unknown id, Running for a report that is not completed, Complete with
\* the stored output of the run otherwise.
AnswersFollowReport ==
  (response' # response /\ response'.status \in {404, 202, 200}) =>
    LET id == response'.report_id
    IN /\ response'.status = 404 <=> id \notin DOMAIN Report
       /\ response'.status = 202 <=> (id \in DOMAIN Report /\ ~Report[id].is_completed)
       /\ response'.status = 200 =>
            /\ Report[id].is_completed
            /\ g_pc[id] = "done"
            /\ Report[id].store_data = SerializeAll(store_data_by_id[id]).val

\* A change of the Report table: a new report as create_report saves it, or
\* the one save of set_store_data, which stores the output and sets
\* is_completed.
ReportChanges ==
  /\ Len(Report') >= Len(Report)
  /\ \A id \in DOMAIN Report' :
       IF id \notin DOMAIN Report
         THEN Report'[id] = NewReport
         ELSE \/ Report'[id] = Report[id]
              \/ /\ ~Report[id].is_completed
                 /\ Report'[id].is_completed
                 /\ Report'[id].store_data = SerializeAll(store_data_by_id[id]).val

\* C17: the report lifecycle.  A Report is created with is_completed = FALSE
\* and empty store_data; get_report answers 404 for an unknown id, Running
\* for a report that is not completed and Complete only after set_store_data
\* has stored the output of the run; store_data and is_completed are set in
\* one save, and is_completed never goes back to FALSE.
C17_ReportLifecycle ==
  /\ [](\A id \in DOMAIN Report : ~Report[id].is_completed => Report[id] = NewReport)
  /\ [][ReportChanges]_vars
  /\ [][AnswersFollowReport]_vars

\* get_report has answered Complete, with the stored output, for one report
\* while another one is still running.
C17_Witness ==
  /\ ~IsNone(response)
  /\ response.status = 200
  /\ Len(Report[response.report_id].store_data) > 0
  /\ \E id \in DOMAIN Report : ~Report[id].is_completed

\* ------------------------------------------------------------ the returned list
\* C18: the list generate_store_data returns has one element per dispatched
\* group, in the order of the groups, which is ascending entity id: element
\* i is the result of group i (the StoreReport of its entity, or None when
\* its computation raised), whatever the order in which the tasks finish.
C18_ResultsInGroupOrder ==
  \A id \in DOMAIN g_pc :
    /\ \A i, j \in DOMAIN grouped_stores[id] :
         i < j => grouped_stores[id][i][1] < grouped_stores[id][j][1]
    /\ \A i \in DOMAIN store_data_by_id[id] :
         /\ i \in DOMAIN grouped_stores[id]
         /\ ~IsNone(store_data_by_id[id][i]) =>
              store_data_by_id[id][i].store = grouped_stores[id][i][1]
    /\ Returned(id) => DOMAIN store_data_by_id[id] = 1 .. Len(grouped_stores[id])

\* One run has returned the reports of entities 1 and 2 in this order, and
\* in another run the task of the second group has finished before the first.
C18_Witness ==
  \E id, other \in DOMAIN g_pc :
    /\ Returned(id)
    /\ Len(grouped_stores[id]) = 2
    /\ ~IsNone(store_data_by_id[id][1]) /\ store_data_by_id[id][1].store = 1
    /\ ~IsNone(store_data_by_id[id][2]) /\ store_data_by_id[id][2].store = 2
    /\ DOMAIN store_data_by_id[other] = {2}

\* ------------------------------------------------------------ more claims on the engine
\* C19: in every StoreReport the six fields are non-negative and the buckets
\* are nested: uptime_last_hour / 60 <= uptime_last_day <= uptime_last_week,
\* and likewise for the downtime fields.
C19_NestedNonNegativeBuckets ==
  e_pc = "done" =>
    /\ store_report.uptime_last_hour >= 0
    /\ store_report.downtime_last_hour >= 0
    /\ store_report.uptime_last_day >= 0
    /\ store_report.downtime_last_day >= 0
    /\ store_report.uptime_last_week >= 0
    /\ store_report.downtime_last_week >= 0
    /\ store_report.uptime_last_hour <= 60 * store_report.uptime_last_day
    /\ store_report.uptime_last_day <= store_report.uptime_last_week
    /\ store_report.downtime_last_hour <= 60 * store_report.downtime_last_day
    /\ store_report.downtime_last_day <= store_report.downtime_last_week

\* A report with uptime and downtime in the hourly bucket, more of both in
\* the daily bucket and more downtime again in the weekly bucket.
C19_Witness ==
  /\ e_pc = "done"
  /\ store_report.uptime_last_hour > 0
  /\ store_report.downtime_last_hour > 0
  /\ store_report.uptime_last_hour < 60 * store_report.uptime_last_day
  /\ store_report.downtime_last_hour < 60 * store_report.downtime_last_day
  /\ store_report.downtime_last_day < store_report.downtime_last_week

\* The resolved window of weekday w ends, in UTC, not after it starts.
WindowWraps(w) == business_hours_data[w].end_utc <= business_hours_data[w].start_utc

\* C20: a weekday whose resolved window has a UTC end that is not after its
\* UTC start gets no classified interval, and so adds nothing to the six
\* fields: the hourly and daily fields are 0 when it is the reference
\* weekday, and the weekly fields are the sums over the other weekdays.
C20_WrappedWindowCountsNothing ==
  /\ e_pc \in {"classified", "done"} =>
       \A w \in Weekdays : WindowWraps(w) => classified_intervals[w] = <<>>
  /\ e_pc = "done" =>
       LET Straight == {w \in Weekdays : ~WindowWraps(w)}
           WeekOf(w) == IF w \in Straight THEN LengthWhere(w, InLastWeek) ELSE 0
       IN /\ WindowWraps(RefWeekday) =>
               /\ store_report.uptime_last_hour = 0
               /\ store_report.downtime_last_hour = 0
               /\ store_report.uptime_last_day = 0
               /\ store_report.downtime_last_day = 0
          /\ store_report.uptime_last_week + store_report.downtime_last_week
               = HoursOf(WeekOf(0) + WeekOf(1) + WeekOf(2) + WeekOf(3) + WeekOf(4)
                           + WeekOf(5) + WeekOf(6))

\* A report for an entity whose window on the reference weekday, 09:00 to
\* 21:00 local time, ends in UTC before it starts, with polls on that day.
C20_Witness ==
  /\ e_pc = "done"
  /\ ConfiguredRows(RefWeekday) # {}
  /\ business_hours_data[RefWeekday].end_utc < business_hours_data[RefWeekday].start_utc
  /\ DictGet(grouped_observations, RefWeekday) # <<>>
  /\ store_report.downtime_last_week > 0

====
